---- MODULE Spec2Model ----
(***************************************************************************)
(* Poetic Camera: the Streamlit pipeline of app.py (session state, vision  *)
(* cache, staged reruns), the LLM re-ranker of scripts/architect.py and    *)
(* the poem generator of scripts/generator.py.                             *)
(*                                                                         *)
(* Python values are encoded as follows.                                   *)
(*   Optional values are records [some, v]: None is some = FALSE.          *)
(*   Strings that the code inspects (narratives) are sequences of tokens;  *)
(*   "ERROR:" and "Error:" are the two markers app.py looks for.           *)
(*   A candidate (a dict) is a record; hasMeta says whether the key        *)
(*   'metadata' exists, rel whether the key 'relevance_score' exists.      *)
(***************************************************************************)
EXTENDS Integers, Sequences, FiniteSets, TLC

VARIABLES
    session_state,    \* st.session_state: the five keys of app.py line 49
    vision_cache,     \* the st.cache_data store of run_vision_cached
    widgets,          \* the values of the sidebar and main-area widgets
    AUDIO_AVAILABLE,  \* whether scripts.audio could be imported
    pc,               \* where the script run of the session stands
    loc,              \* local variables of the running script
    h,                \* history of the session, for stating the properties
    rr,               \* one call of select_best_candidates on its own
    gp,               \* one call of generate_poem on its own
    sessions,         \* two sessions inside run_vision_cached at once
    tagger,           \* runs of metadata_extractor_dense.main over one input
    loader            \* one call of vector_loader.load_data

appvars == <<session_state, vision_cache, widgets, AUDIO_AVAILABLE, pc, loc, h>>
offline == <<sessions, tagger, loader>>
vars == <<session_state, vision_cache, widgets, AUDIO_AVAILABLE, pc, loc, h, rr, gp,
          sessions, tagger, loader>>

(***************************************************************************)
(* Bounds of the model                                                     *)
(***************************************************************************)
MaxCands == 2
MaxIdxLen == 2
MaxTopK == 2
MaxRefs == 2
MaxRetrieved == 1
MaxPersonas == 2
MaxAnalyses == 2

Min(a, b) == IF a < b THEN a ELSE b
Max(a, b) == IF a > b THEN a ELSE b

SeqsUpTo(S, n) == UNION {[1..k -> S] : k \in 0..n}

(***************************************************************************)
(* Python list helpers                                                     *)
(***************************************************************************)
\* s[:k]
PySliceTo(s, k) ==
    IF k >= 0 THEN SubSeq(s, 1, Min(k, Len(s)))
              ELSE SubSeq(s, 1, Max(0, Len(s) + k))

\* a lookup by content: the first item with the text of s[i]
PyGet_by_text(s, i) ==
    LET target == IF i >= 0 THEN s[i + 1] ELSE s[Len(s) + i + 1]
        same == {j \in 1..Len(s) : s[j].text = target.text}
    IN  s[CHOOSE j \in same : \A m \in same : j <= m]

\* s[i] for an integer i that does not raise: -len <= i < len
PyGet(s, i) == IF i >= 0 THEN s[i + 1] ELSE s[Len(s) + i + 1]

(***************************************************************************)
(* Candidates                                                              *)
(***************************************************************************)
Candidate(id, ns, hasMeta, text) ==
    [id |-> id, ns |-> ns, hasMeta |-> hasMeta, text |-> text, rel |-> "absent"]

\* candidates 1 and 2 carry the same text; candidate 3 has no 'metadata' key
CandPool ==
    { Candidate(1, "dickinson", TRUE, "a"),
      Candidate(2, "dickinson", TRUE, "a"),
      Candidate(3, "dickinson", FALSE, "") }

(***************************************************************************)
(* scripts/architect.py: RAGArchitect.select_best_candidates               *)
(***************************************************************************)
\* One element of the JSON list best_indices: an integer or something else
IntIdx(n) == [t |-> "int", v |-> n]
StrIdx == [t |-> "str", v |-> 0]
IdxVals == {IntIdx(n) : n \in (0 - (MaxCands + 1))..MaxCands} \cup {StrIdx}

\* What client.chat.completions.create + json.loads can produce
RerankResponses ==
    { [kind |-> "raise", best |-> <<>>],        \* the API call raises
      [kind |-> "badjson", best |-> <<>>],      \* json.loads raises / not an object
      [kind |-> "nokey", best |-> <<>>],        \* no "best_indices" key
      [kind |-> "nonlist", best |-> <<>>] }     \* "best_indices" is not a list
    \cup {[kind |-> "list", best |-> b] : b \in SeqsUpTo(IdxVals, MaxIdxLen)}

\* the condition of the comprehension, `i < len(candidates)`
IndexKept(i, candidates) == i.v < Len(candidates)

\* evaluating `i < len(candidates)` or `candidates[i]` raises
IndexRaises(i, candidates) ==
    \/ i.t # "int"
    \/ /\ IndexKept(i, candidates)
       /\ i.v < 0 - Len(candidates)

\* [candidates[i] for i in indices if i < len(candidates)]
RECURSIVE SelectedPoems(_, _)
SelectedPoems(indices, candidates) ==
    IF indices = <<>> THEN <<>>
    ELSE LET rest == SelectedPoems(Tail(indices), candidates)
         IN  IF IndexKept(Head(indices), candidates)
             THEN <<PyGet(candidates, Head(indices).v)>> \o rest
             ELSE rest

\* the values i of the comprehension that were looked up, in order
RECURSIVE UsedIndices(_, _)
UsedIndices(indices, candidates) ==
    IF indices = <<>> THEN <<>>
    ELSE LET rest == UsedIndices(Tail(indices), candidates)
         IN  IF IndexKept(Head(indices), candidates)
             THEN <<Head(indices).v>> \o rest
             ELSE rest

\* the exception lines 66-95 raise for this answer, "none" when they complete
TryBlockException(candidates, top_k, resp) ==
    LET indices == PySliceTo(resp.best, top_k)
        bad == {k \in 1..Len(indices) : IndexRaises(indices[k], candidates)}
        first == CHOOSE k \in bad : \A m \in bad : k <= m
    IN  CASE resp.kind = "raise" -> "APIError"
          [] resp.kind = "badjson" -> "JSONDecodeError"
          [] resp.kind = "nonlist" -> "TypeError"
          [] resp.kind = "nokey" -> "none"
          [] resp.kind = "list" ->
               IF bad = {} THEN "none"
               ELSE IF indices[first].t # "int" THEN "TypeError" ELSE "IndexError"

\* line 97 with a handler for one exception class only
HandlerCatches_json_only(exc) == exc = "JSONDecodeError"

\* line 97: `except Exception`
HandlerCatches(exc) == TRUE

\* lines 27-100 with a score written into the candidates that were selected
CandidatesAfter_scored(candidates, used) ==
    [j \in 1..Len(candidates) |->
        IF \E k \in 1..Len(used) : used[k] = j - 1
        THEN [candidates[j] EXCEPT !.rel = "scored"]
        ELSE candidates[j]]

\* lines 27-100: the list passed in, after the call; no statement writes to it
\* or to one of its items
CandidatesAfter(candidates, used) == candidates

select_best_candidates(vision_narrative, candidates, top_k, resp) ==
    LET fallback == PySliceTo(candidates, top_k)
        indices0 == IF resp.kind = "list" THEN resp.best ELSE <<>>
        indices == PySliceTo(indices0, top_k)
        exc == TryBlockException(candidates, top_k, resp)
        raises == exc # "none"
        escaped == raises /\ ~HandlerCatches(exc)
        selected_poems == IF raises THEN <<>> ELSE SelectedPoems(indices, candidates)
        mapped == ~raises /\ selected_poems # <<>>
        used == IF mapped THEN UsedIndices(indices, candidates) ELSE <<>>
    IN  [ invoked |-> TRUE,      \* no return precedes the call of line 67
          escaped |-> escaped,
          candidates |-> CandidatesAfter(candidates, used),
          used |-> used,
          ret |-> IF escaped THEN <<>>
                  ELSE IF raises THEN fallback
                  ELSE IF selected_poems = <<>> THEN fallback
                  ELSE selected_poems ]

(***************************************************************************)
(* scripts/generator.py: generate_poem                                     *)
(***************************************************************************)
SomeStr(x) == [some |-> TRUE, v |-> x]
NoneStr == [some |-> FALSE, v |-> ""]

\* the style table, each template named by its first line
POET_PROMPTS ==
    [ p \in {"Emily Dickinson", "Percy Bysshe Shelley", "Walt Whitman"} |->
        CASE p = "Emily Dickinson" -> "You are the ghost of Emily Dickinson."
          [] p = "Percy Bysshe Shelley" -> "You are the ghost of Percy Bysshe Shelley."
          [] p = "Walt Whitman" -> "You are the ghost of Walt Whitman." ]

PLACEHOLDER_POEM == "The camera is blind,\nThe words wont find,\nA path to you."

MAX_TOKENS == 300

\* d.get(k, default)
DictGet(d, k, default) == IF k \in DOMAIN d THEN d[k] ELSE default

system_instruction_whitman(poet_name) ==
    DictGet(POET_PROMPTS, poet_name, POET_PROMPTS["Walt Whitman"])

system_instruction(poet_name) ==
    DictGet(POET_PROMPTS, poet_name, POET_PROMPTS["Emily Dickinson"])

\* the loop over reference_poems: item['metadata'] raises KeyError
ReferenceLoopRaises(reference_poems) ==
    \E j \in 1..Len(reference_poems) : ~reference_poems[j].hasMeta

\* the texts concatenated into reference_text, in order
ReferenceText(reference_poems) ==
    [j \in 1..Len(reference_poems) |-> reference_poems[j].text]

\* What client.chat.completions.create can produce
GenResponses ==
    { [kind |-> "raise", content |-> NoneStr],       \* the API call raises
      [kind |-> "nochoices", content |-> NoneStr],   \* choices is empty
      [kind |-> "content", content |-> NoneStr],     \* message.content is None
      [kind |-> "content", content |-> SomeStr("poem1")] }

\* lines 79-94 with the exception propagating instead of being handled
GenerationResult_propagates(resp) ==
    IF resp.kind = "content"
    THEN [escaped |-> FALSE, ret |-> resp.content]
    ELSE [escaped |-> TRUE, ret |-> NoneStr]

\* lines 79-94: the try block and its handler
GenerationResult(resp) ==
    IF resp.kind = "content"
    THEN [escaped |-> FALSE, ret |-> resp.content]
    ELSE [escaped |-> FALSE, ret |-> SomeStr(PLACEHOLDER_POEM)]

NoRequest == [system |-> "", scene |-> <<>>, references |-> <<>>,
              temperature |-> 0, max_tokens |-> 0]

generate_poem(vision_narrative, reference_poems, poet_name, temperature, resp) ==
    IF ReferenceLoopRaises(reference_poems)
    THEN [escaped |-> TRUE, invoked |-> FALSE, request |-> NoRequest, ret |-> NoneStr]
    ELSE LET res == GenerationResult(resp)
         IN  [ escaped |-> res.escaped,
               invoked |-> TRUE,
               request |-> [ system |-> system_instruction(poet_name),
                             scene |-> vision_narrative,
                             references |-> ReferenceText(reference_poems),
                             temperature |-> temperature,
                             max_tokens |-> MAX_TOKENS ],
               ret |-> res.ret ]

\* the two functions when they are not being called on their own
RRNoOut == [invoked |-> FALSE, escaped |-> FALSE, candidates |-> <<>>,
            used |-> <<>>, ret |-> <<>>]
RRIdle == [phase |-> "off", candidates |-> <<>>, top_k |-> 0,
           resp |-> [kind |-> "raise", best |-> <<>>], out |-> RRNoOut]
GPNoOut == [escaped |-> FALSE, invoked |-> FALSE, request |-> NoRequest, ret |-> NoneStr]
GPIdle == [phase |-> "off", narrative |-> <<>>, refs |-> <<>>, poet |-> "",
           temperature |-> 0, resp |-> [kind |-> "raise", content |-> NoneStr],
           out |-> GPNoOut]

\* the offline scripts and the two-session run when they are not part of the run
SessionsIdle == [phase |-> "off"]
TaggerIdle == [phase |-> "off"]
LoaderIdle == [phase |-> "off"]
OfflineOff ==
    /\ sessions = SessionsIdle
    /\ tagger = TaggerIdle
    /\ loader = LoaderIdle

(***************************************************************************)
(* app.py: values                                                          *)
(***************************************************************************)
SomeSeq(x) == [some |-> TRUE, v |-> x]
NoneSeq == [some |-> FALSE, v |-> <<>>]

\* Python truthiness of an Optional string / list
TruthySeq(x) == x.some /\ x.v # <<>>
TruthyStr(x) == x.some /\ x.v # ""

\* audio bytes: the poem they were synthesized from and their length
AudioOf(poem, n) == [some |-> TRUE, of |-> poem, len |-> n]
NoneAudio == [some |-> FALSE, of |-> "", len |-> 0]
TruthyAudio(x) == x.some /\ x.len > 0

\* an uploaded or captured file; its size is the length of its content
Contents == {"x1", "x2"}
SizeOf(content) == 1
File(name, content) == [some |-> TRUE, name |-> name, size |-> SizeOf(content),
                        content |-> content]
NoFile == [some |-> FALSE, name |-> "", size |-> 0, content |-> ""]
UploadFiles == {File("a.jpg", c) : c \in Contents}
CameraFiles == {File("camera.jpg", "x1")}

\* f"{image_source.name}_{image_source.size}"
FileId(f) == [some |-> TRUE, name |-> f.name, size |-> f.size]
NoId == [some |-> FALSE, name |-> "", size |-> 0]

\* poet_map, lines 65-69
poet_map ==
    [ p \in {"Emily Dickinson", "Percy Bysshe Shelley", "Walt Whitman"} |->
        CASE p = "Emily Dickinson" -> "dickinson"
          [] p = "Percy Bysshe Shelley" -> "shelley"
          [] p = "Walt Whitman" -> "whitman" ]

\* slider positions, in tenths
TempVals == {5, 9}

\* the options of the selectbox, lines 71-75, that the user picks among
PersonaOptions == <<"Emily Dickinson", "Walt Whitman", "Percy Bysshe Shelley">>
PersonaChoices == {PersonaOptions[j] : j \in 1..Min(MaxPersonas, Len(PersonaOptions))}

RETRIEVE_TOP_K == 15
RERANK_TOP_K == 3
DEFAULT_TEMPERATURE == 5

\* keys, lines 49-52
EmptySession ==
    [ narrative |-> NoneSeq, retrieved_items |-> NoneSeq, generated_poem |-> NoneStr,
      audio_bytes |-> NoneAudio, last_upload_id |-> NoId ]

NoLocals == [file_id |-> NoId, raw_candidates |-> <<>>, clicked |-> FALSE]

Stages == {"vision", "retriever", "reranker", "generator", "audio"}

\* h.vcalls   analyze_image invocations since last_upload_id last changed or
\*            System Reset ran
\* h.vfailed  run_vision_cached gave a failure for the current identity
\* h.trigger  the user action that caused the current script run
\* h.changed  the current run found an identity other than last_upload_id
\* h.invoked  the stages invoked so far in the current run
\* h.start    the session state when the current run began
\* h.rendered the previous complete run rendered card 3's slider and button
\* h.later    the last run began after a failure for the same identity
\* trigger, changed, invoked and start are forgotten when the run is over
NoHistory ==
    [ vcalls |-> 0, vfailed |-> FALSE, later |-> FALSE, trigger |-> "start",
      changed |-> FALSE, invoked |-> {}, start |-> EmptySession, rendered |-> FALSE ]

InitWidgets ==
    [ selected_poet_name |-> "Emily Dickinson", input_mode |-> "Upload",
      upload |-> NoFile, camera |-> NoFile, temperature |-> DEFAULT_TEMPERATURE ]

\* the application is not part of the run
AppOff ==
    /\ session_state = EmptySession
    /\ vision_cache = {}
    /\ widgets = InitWidgets
    /\ AUDIO_AVAILABLE = FALSE
    /\ pc = "off"
    /\ loc = NoLocals
    /\ h = NoHistory

(***************************************************************************)
(* app.py: run_vision_cached and the external stages                       *)
(***************************************************************************)
StartsWith(s, tok) == Len(s) >= 1 /\ s[1] = tok
Contains(s, tok) == \E j \in 1..Len(s) : s[j] = tok

\* what analyze_image("temp_input.jpg") can do for an image with this content
VisionOutcomes(content) ==
    { [kind |-> "return", val |-> SomeSeq(<<"scene", content>>)],
      [kind |-> "return", val |-> SomeSeq(<<>>)],
      [kind |-> "return", val |-> SomeSeq(<<"ERROR:", "w">>)],
      [kind |-> "return", val |-> SomeSeq(<<"w", "Error:">>)],
      [kind |-> "raise", val |-> SomeSeq(<<"w">>)] }

\* the body of run_vision_cached, lines 39-45
VisionBody(outcome) ==
    IF outcome.kind = "raise"
    THEN SomeSeq(<<"Error:">> \o outcome.val.v)
    ELSE outcome.val

\* st.cache_data keys an entry by the hash of the argument; an uploaded file
\* is hashed by its name and its bytes
CacheKey(f) == [name |-> f.name, content |-> f.content]
CacheHit(cache, f) == \E e \in cache : e.key = CacheKey(f)
CacheValue(cache, f) == (CHOOSE e \in cache : e.key = CacheKey(f)).val
CachePut(cache, f, val) == cache \cup {[key |-> CacheKey(f), val |-> val]}

\* the result signals a failure: the marker of a returned error, or the
\* "Error: {e}" built from a raised one
VisionFailure(result) ==
    result.some /\ (StartsWith(result.v, "ERROR:") \/ StartsWith(result.v, "Error:"))

\* what retrieve_poems(narrative, top_k=15, namespace=ns) can do
RetrievedCandidate(j, ns) == Candidate(j, ns, TRUE, IF j <= 2 THEN "a" ELSE "b")
RetrieverOutcomes(ns) ==
    {[kind |-> "raise", val |-> <<>>]}
    \cup {[kind |-> "return", val |-> [j \in 1..n |-> RetrievedCandidate(j, ns)]] :
            n \in 0..Min(MaxRetrieved, RETRIEVE_TOP_K)}

\* what the selection service answers in the runs of the application
AppRerankResponses ==
    { [kind |-> "raise", best |-> <<>>],
      [kind |-> "list", best |-> <<>>],
      [kind |-> "list", best |-> <<IntIdx(0)>>] }

\* what the generation service answers in the runs of the application; an
\* empty choices list ends in the handler of line 92 like a raised call
AppGenResponses == {r \in GenResponses : r.kind # "nochoices"}

\* a cache hit: the body of run_vision_cached does not run
NotCalled == [kind |-> "return", val |-> NoneSeq]

\* what AudioEngine().synthesize(poem) can do
AudioOutcomes(poem) ==
    { [kind |-> "raise", val |-> NoneAudio],
      [kind |-> "return", val |-> NoneAudio],
      [kind |-> "return", val |-> AudioOf(poem, 1)] }

(***************************************************************************)
(* app.py: one script run, from the user action that caused it             *)
(***************************************************************************)
\* lines 109-118
image_source(w) == IF w.input_mode = "Upload" THEN w.upload ELSE w.camera

\* lines 126-131 without line 129
ResetBlock_keeps_audio(ss, file_id) ==
    [ss EXCEPT !.narrative = NoneSeq, !.retrieved_items = NoneSeq,
               !.generated_poem = NoneStr, !.last_upload_id = file_id]

\* lines 126-131
ResetBlock(ss, file_id) ==
    [ss EXCEPT !.narrative = NoneSeq, !.retrieved_items = NoneSeq,
               !.generated_poem = NoneStr, !.audio_bytes = NoneAudio,
               !.last_upload_id = file_id]

\* line 154 with a test for None instead of truthiness
NeedsVision_absent_only(ss) == ~ss.narrative.some

\* line 154
NeedsVision(ss) == ~TruthySeq(ss.narrative)

\* line 169 with the prefix test only
IsErrorNarrative_prefix_only(narrative) == StartsWith(narrative.v, "ERROR:")

\* line 169
IsErrorNarrative(narrative) ==
    StartsWith(narrative.v, "ERROR:") \/ Contains(narrative.v, "Error:")

\* line 178 without the guard
NeedsRetrieval_always(ss) == TRUE

\* line 178
NeedsRetrieval(ss) == ~TruthySeq(ss.retrieved_items)

\* Where the script goes next without calling a stage, and whether it renders
\* the slider and the button of card 3 on the way.
\* lines 212-242 with the generation not depending on the button
FlowCardThree_auto(ss, clicked) ==
    [ pc |-> IF TruthySeq(ss.retrieved_items) THEN "generate" ELSE "done",
      rendered |-> TruthySeq(ss.retrieved_items) ]

\* lines 212-242 and 280-281: card 3 up to the button
FlowCardThree(ss, clicked) ==
    [ pc |-> IF TruthySeq(ss.retrieved_items) /\ clicked THEN "generate" ELSE "done",
      rendered |-> TruthySeq(ss.retrieved_items) ]

\* lines 165-178 and 200-204: the check of the narrative, st.stop(), the guard
\* of the retrieval stage
FlowAfterVision(ss, clicked) ==
    IF ~TruthySeq(ss.narrative) THEN FlowCardThree(ss, clicked)
    ELSE IF IsErrorNarrative(ss.narrative) THEN [pc |-> "done", rendered |-> FALSE]
    ELSE IF NeedsRetrieval(ss) THEN [pc |-> "retrieve", rendered |-> FALSE]
    ELSE FlowCardThree(ss, clicked)

\* lines 121 and 154: no image ends the run, the guard of the vision stage
FlowTop(ss, has_image, clicked) ==
    IF ~has_image THEN [pc |-> "done", rendered |-> FALSE]
    ELSE IF NeedsVision(ss) THEN [pc |-> "vision", rendered |-> FALSE]
    ELSE FlowAfterVision(ss, clicked)

\* A step of a run that leaves the script at `next`, with history hh, locals ll
\* and widget values ww. When the run is over (end of the script, st.stop()
\* or an uncaught exception) its local variables are gone, a slider that was
\* not rendered is back at its default, and the session waits for the next
\* user action.
Step(next, hh, ll, ww) ==
    IF next = "done"
    THEN /\ pc' = "idle"
         /\ loc' = NoLocals
         /\ h' = [hh EXCEPT !.trigger = NoHistory.trigger, !.changed = FALSE,
                            !.invoked = {}, !.start = NoHistory.start]
         /\ widgets' = IF hh.rendered THEN ww
                       ELSE [ww EXCEPT !.temperature = DEFAULT_TEMPERATURE]
    ELSE /\ pc' = next
         /\ loc' = ll
         /\ h' = hh
         /\ widgets' = ww

\* lines 47-154: the top of the script, run with the new widget values
RunScript(w, clicked, trigger) ==
    LET img == image_source(w)
        file_id == FileId(img)
        changed == img.some /\ session_state.last_upload_id # file_id
        ss == IF changed THEN ResetBlock(session_state, file_id) ELSE session_state
        flow == FlowTop(ss, img.some, clicked)
    IN  /\ session_state' = ss
        /\ Step(flow.pc,
                [h EXCEPT !.trigger = trigger, !.changed = changed, !.invoked = {},
                          !.start = session_state,
                          !.vcalls = IF changed THEN 0 ELSE @,
                          !.later = IF changed THEN FALSE ELSE h.vfailed,
                          !.vfailed = IF changed THEN FALSE ELSE @,
                          !.rendered = flow.rendered],
                [file_id |-> IF img.some THEN file_id ELSE NoId,
                 raw_candidates |-> <<>>, clicked |-> clicked],
                w)
        /\ UNCHANGED <<vision_cache, AUDIO_AVAILABLE, rr, gp, offline>>

SelectPoet(p) ==
    /\ pc = "idle"
    /\ p # widgets.selected_poet_name
    /\ RunScript([widgets EXCEPT !.selected_poet_name = p], FALSE, "persona")

\* the uploader is rendered only in Upload mode (line 92) and the camera only
\* in Camera mode (line 113); a widget that is not rendered loses its value
SelectMode(m) ==
    /\ pc = "idle"
    /\ m # widgets.input_mode
    /\ RunScript([widgets EXCEPT !.input_mode = m, !.upload = NoFile, !.camera = NoFile],
                 FALSE, "mode")

UploadFile(f) ==
    /\ pc = "idle"
    /\ widgets.input_mode = "Upload"
    /\ RunScript([widgets EXCEPT !.upload = f], FALSE, "upload")

RemoveFile ==
    /\ pc = "idle"
    /\ widgets.input_mode = "Upload"
    /\ widgets.upload.some
    /\ RunScript([widgets EXCEPT !.upload = NoFile], FALSE, "remove")

TakePhoto(f) ==
    /\ pc = "idle"
    /\ widgets.input_mode = "Camera"
    /\ RunScript([widgets EXCEPT !.camera = f], FALSE, "camera")

ClearPhoto ==
    /\ pc = "idle"
    /\ widgets.input_mode = "Camera"
    /\ widgets.camera.some
    /\ RunScript([widgets EXCEPT !.camera = NoFile], FALSE, "remove")

MoveSlider(t) ==
    /\ pc = "idle"
    /\ h.rendered
    /\ t # widgets.temperature
    /\ RunScript([widgets EXCEPT !.temperature = t], FALSE, "slider")

ClickGenerate ==
    /\ pc = "idle"
    /\ h.rendered
    /\ RunScript(widgets, TRUE, "generate")

\* lines 96-99 without st.cache_data.clear()
SystemReset_keeps_cache ==
    /\ pc = "idle"
    /\ vision_cache' = vision_cache
    /\ session_state' = EmptySession
    /\ pc' = "rerun"
    /\ h' = [h EXCEPT !.trigger = "reset", !.vcalls = 0, !.vfailed = FALSE,
                      !.later = FALSE, !.changed = FALSE, !.invoked = {},
                      !.rendered = FALSE, !.start = session_state]
    /\ UNCHANGED <<widgets, AUDIO_AVAILABLE, loc, rr, gp, offline>>

\* lines 96-99, up to the call of st.rerun()
SystemReset ==
    /\ pc = "idle"
    /\ vision_cache' = {}
    /\ session_state' = EmptySession
    /\ pc' = "rerun"
    /\ h' = [h EXCEPT !.trigger = "reset", !.vcalls = 0, !.vfailed = FALSE,
                      !.later = FALSE, !.changed = FALSE, !.invoked = {},
                      !.rendered = FALSE, !.start = session_state]
    /\ UNCHANGED <<widgets, AUDIO_AVAILABLE, loc, rr, gp, offline>>

\* the run started by st.rerun()
Rerun ==
    /\ pc = "rerun"
    /\ RunScript(widgets, FALSE, "reset")

\* lines 155-162: the call of run_vision_cached, then on to the next stage
VisionStage ==
    /\ pc = "vision"
    /\ LET img == image_source(widgets)
           hit == CacheHit(vision_cache, img)
       IN  \E o \in (IF hit THEN {NotCalled} ELSE VisionOutcomes(img.content)) :
             LET result == IF hit THEN CacheValue(vision_cache, img) ELSE VisionBody(o)
                 ss == [session_state EXCEPT !.narrative = result]
                 flow == FlowAfterVision(ss, loc.clicked)
             IN  /\ ~hit => Cardinality(vision_cache) < MaxAnalyses
                 /\ session_state' = ss
                 /\ vision_cache' = IF hit THEN vision_cache
                                    ELSE CachePut(vision_cache, img, result)
                 /\ Step(flow.pc,
                         [h EXCEPT !.vcalls = IF hit THEN @ ELSE @ + 1,
                                   !.invoked = IF hit THEN @ ELSE @ \cup {"vision"},
                                   !.vfailed = @ \/ VisionFailure(result),
                                   !.rendered = flow.rendered],
                         loc, widgets)
    /\ UNCHANGED <<AUDIO_AVAILABLE, rr, gp, offline>>

\* lines 179-187: retrieve_poems, which may raise and end the run
RetrievalStage ==
    /\ pc = "retrieve"
    /\ \E o \in RetrieverOutcomes(poet_map[widgets.selected_poet_name]) :
         Step(IF o.kind = "raise" THEN "done" ELSE "rerank",
              [h EXCEPT !.invoked = @ \cup {"retriever"}],
              [loc EXCEPT !.raw_candidates = o.val], widgets)
    /\ UNCHANGED <<session_state, vision_cache, AUDIO_AVAILABLE, rr, gp, offline>>

\* lines 191-198: the reranker, then card 3
RerankStage ==
    /\ pc = "rerank"
    /\ \E r \in AppRerankResponses :
         LET out == select_best_candidates(session_state.narrative.v,
                                           loc.raw_candidates, RERANK_TOP_K, r)
             ss == IF out.escaped THEN session_state
                   ELSE [session_state EXCEPT !.retrieved_items = SomeSeq(out.ret)]
             flow == IF out.escaped THEN [pc |-> "done", rendered |-> FALSE]
                     ELSE FlowCardThree(ss, loc.clicked)
         IN  /\ session_state' = ss
             /\ Step(flow.pc,
                     [h EXCEPT !.invoked = @ \cup {"reranker"}, !.rendered = flow.rendered],
                     loc, widgets)
    /\ UNCHANGED <<vision_cache, AUDIO_AVAILABLE, rr, gp, offline>>

\* lines 245-271
GenerateStage ==
    /\ pc = "generate"
    /\ \E r \in AppGenResponses :
         LET out == generate_poem(session_state.narrative.v, session_state.retrieved_items.v,
                                  widgets.selected_poet_name, widgets.temperature, r)
         IN  /\ session_state' = IF out.escaped THEN session_state
                                 ELSE [session_state EXCEPT !.generated_poem = out.ret]
             /\ Step(IF ~out.escaped /\ AUDIO_AVAILABLE /\ TruthyStr(out.ret)
                     THEN "audio" ELSE "done",
                     [h EXCEPT !.invoked = IF out.invoked THEN @ \cup {"generator"} ELSE @],
                     loc, widgets)
    /\ UNCHANGED <<vision_cache, AUDIO_AVAILABLE, rr, gp, offline>>

\* line 275 with a failed synthesis also dropping the poem
AfterAudio_drops_poem(ss, o) ==
    IF o.kind = "return" /\ o.val.some
    THEN [ss EXCEPT !.audio_bytes = o.val]
    ELSE [ss EXCEPT !.audio_bytes = NoneAudio, !.generated_poem = NoneStr]

\* line 275: the assignment is not reached when synthesize raises
AfterAudio(ss, o) ==
    IF o.kind = "raise" THEN ss ELSE [ss EXCEPT !.audio_bytes = o.val]

\* lines 272-279
AudioStage ==
    /\ pc = "audio"
    /\ \E o \in AudioOutcomes(session_state.generated_poem.v) :
         session_state' = AfterAudio(session_state, o)
    /\ Step("done", [h EXCEPT !.invoked = @ \cup {"audio"}], loc, widgets)
    /\ UNCHANGED <<vision_cache, AUDIO_AVAILABLE, rr, gp, offline>>

Init ==
    /\ session_state = EmptySession
    /\ vision_cache = {}
    /\ widgets = InitWidgets
    /\ AUDIO_AVAILABLE \in BOOLEAN
    /\ pc = "idle"
    /\ loc = NoLocals
    /\ h = NoHistory
    /\ rr = RRIdle
    /\ gp = GPIdle
    /\ OfflineOff

Next ==
    \/ \E p \in PersonaChoices : SelectPoet(p)
    \/ \E m \in {"Upload", "Camera"} : SelectMode(m)
    \/ \E f \in UploadFiles : UploadFile(f)
    \/ RemoveFile
    \/ \E f \in CameraFiles : TakePhoto(f)
    \/ ClearPhoto
    \/ \E t \in TempVals : MoveSlider(t)
    \/ ClickGenerate
    \/ SystemReset
    \/ Rerun
    \/ VisionStage
    \/ RetrievalStage
    \/ RerankStage
    \/ GenerateStage
    \/ AudioStage

Spec == Init /\ [][Next]_vars

(***************************************************************************)
(* Properties of the pipeline                                              *)
(***************************************************************************)
\* C1: while the input identity stays the same and no System Reset happens,
\* analyze_image is invoked at most once, whatever it returned the first time.
C1_VisionAtMostOnce == h.vcalls <= 1

\* C2: in a run that finds an identity other than last_upload_id, when the
\* first stage is about to be evaluated nothing has been invoked yet,
\* narrative, retrieved_items, generated_poem and audio_bytes are absent and
\* last_upload_id is the new identity; no later step of that run changes it.
C2_ResetBeforeStages ==
    /\ [](h.changed =>
            /\ session_state.last_upload_id = FileId(image_source(widgets))
            /\ pc = "vision" =>
                  /\ h.invoked = {}
                  /\ session_state.narrative = NoneSeq
                  /\ session_state.retrieved_items = NoneSeq
                  /\ session_state.generated_poem = NoneStr
                  /\ session_state.audio_bytes = NoneAudio)
    /\ [][h.changed => session_state'.last_upload_id = session_state.last_upload_id]_vars

C2_Witness ==
    /\ h.changed
    /\ pc = "vision"
    /\ h.start.last_upload_id.some
    /\ TruthySeq(h.start.narrative)
    /\ TruthySeq(h.start.retrieved_items)
    /\ TruthyStr(h.start.generated_poem)
    /\ TruthyAudio(h.start.audio_bytes)

\* a step of a run caused by the Generate button or by the temperature slider
RegenerationStep ==
    \/ ClickGenerate
    \/ \E t \in TempVals : MoveSlider(t)
    \/ h.trigger \in {"generate", "slider"}

\* C8: once narrative and selected candidates are stored, every step of a run
\* caused by the Generate button or by the temperature slider leaves narrative
\* and retrieved_items as they were, and neither invokes nor is about to
\* invoke the vision analyzer, the retriever or the reranker.
C8_RegenerationReusesStages ==
    [][ (/\ RegenerationStep
         /\ session_state.narrative.some
         /\ session_state.retrieved_items.some) =>
            /\ session_state'.narrative = session_state.narrative
            /\ session_state'.retrieved_items = session_state.retrieved_items
            /\ h'.invoked \cap {"vision", "retriever", "reranker"} = {}
            /\ pc' \notin {"vision", "retrieve", "rerank"} ]_vars

\* the second generation of a session, at another temperature, has been made
C8_Witness ==
    /\ h.trigger = "generate"
    /\ pc = "audio"
    /\ widgets.temperature # DEFAULT_TEMPERATURE
    /\ TruthyStr(h.start.generated_poem)
    /\ "generator" \in h.invoked
    /\ TruthySeq(session_state.retrieved_items)

\* C9: once the vision call has raised or returned an error-marked narrative
\* for the current identity, in that run and in every later run with that
\* identity and no System Reset the retriever, the reranker and the generator
\* are not invoked and retrieved_items and generated_poem stay absent.
C9_VisionFailureFatal ==
    h.vfailed =>
        /\ h.invoked \cap {"retriever", "reranker", "generator"} = {}
        /\ pc \notin {"retrieve", "rerank", "generate", "audio"}
        /\ session_state.retrieved_items = NoneSeq
        /\ session_state.generated_poem = NoneStr

\* a later run, with another persona, after a raised vision failure
C9_Witness ==
    /\ h.vfailed
    /\ h.later
    /\ pc = "idle"
    /\ widgets.selected_poet_name # InitWidgets.selected_poet_name
    /\ image_source(widgets).some
    /\ session_state.narrative = SomeSeq(<<"Error:", "w">>)

\* C10: audio_bytes present implies generated_poem present, generated_poem
\* present implies retrieved_items present, and retrieved_items present
\* implies narrative present and not an error narrative.
C10_StageOrdering ==
    /\ session_state.audio_bytes.some => session_state.generated_poem.some
    /\ session_state.generated_poem.some => session_state.retrieved_items.some
    /\ session_state.retrieved_items.some =>
          (session_state.narrative.some /\ ~IsErrorNarrative(session_state.narrative))

\* audio_bytes is absent or was synthesized from the stored poem
AudioMatchesPoem(ss) ==
    ss.audio_bytes.some =>
        (ss.generated_poem.some /\ ss.audio_bytes.of = ss.generated_poem.v)

\* C11: when a run caused by the Generate button is over, audio_bytes is
\* absent or was synthesized from the poem now stored in generated_poem.
C11_GenerationInvalidatesAudio ==
    [][(h.trigger = "generate" /\ pc' = "idle") => AudioMatchesPoem(session_state')]_vars

\* the synthesis call of this step raised or returned nothing
AudioFailedStep ==
    /\ pc = "audio"
    /\ \/ session_state'.audio_bytes = session_state.audio_bytes
       \/ ~session_state'.audio_bytes.some

\* C12: when the synthesis call of a Generate run raises or returns nothing,
\* generated_poem keeps the poem the generator returned in that run, and
\* narrative and retrieved_items are as they were when the run began.
C12_AudioFailureKeepsPoem ==
    [][AudioFailedStep =>
          /\ TruthyStr(session_state.generated_poem)
          /\ session_state'.generated_poem = session_state.generated_poem
          /\ session_state'.narrative = h.start.narrative
          /\ session_state'.retrieved_items = h.start.retrieved_items]_vars

\* a poem is stored, synthesis was attempted for it, and no audio is stored
C12_Witness ==
    /\ pc = "idle"
    /\ AUDIO_AVAILABLE
    /\ TruthyStr(session_state.generated_poem)
    /\ ~session_state.audio_bytes.some
    /\ TruthySeq(session_state.retrieved_items)

\* C13: the generator is invoked, or about to be invoked, only in a run caused
\* by the Generate button and only with a non-empty retrieved_items; never in
\* the run in which the candidates were retrieved and reranked.
C13_GenerationUserTriggered ==
    (pc \in {"generate", "audio"} \/ "generator" \in h.invoked) =>
        /\ h.trigger = "generate"
        /\ TruthySeq(session_state.retrieved_items)
        /\ h.invoked \cap {"retriever", "reranker"} = {}

\* the generator has been invoked in a run caused by the button
C13_Witness ==
    /\ "generator" \in h.invoked
    /\ h.trigger = "generate"
    /\ pc = "audio"
    /\ ~h.start.generated_poem.some

\* a stored result of session ss is absent in session tt
ResultCleared(ss, tt) ==
    \/ ss.narrative.some /\ ~tt.narrative.some
    \/ ss.retrieved_items.some /\ ~tt.retrieved_items.some
    \/ ss.generated_poem.some /\ ~tt.generated_poem.some
    \/ ss.audio_bytes.some /\ ~tt.audio_bytes.some

\* C14: a stored narrative, retrieved_items, generated_poem or audio_bytes
\* becomes absent only in the step of the reset block (the run found another
\* identity) or in the step of the System Reset handler.
C14_SoleInvalidationPath ==
    [][ResultCleared(session_state, session_state') =>
          (h'.changed \/ pc' = "rerun")]_vars

\* C15: when the System Reset handler has run, narrative, retrieved_items,
\* generated_poem, audio_bytes and last_upload_id are absent and the vision
\* cache is empty; the run it starts, when an image is present, evaluates the
\* vision stage with the cache still empty, so the image is analysed again.
C15_SystemResetClears ==
    /\ [](pc = "rerun" => (session_state = EmptySession /\ vision_cache = {}))
    /\ []((h.trigger = "reset" /\ pc = "vision") =>
             ~CacheHit(vision_cache, image_source(widgets)))
    /\ [][(pc = "rerun" /\ image_source(widgets).some) => pc' = "vision"]_vars

\* System Reset has run on a session whose image had failed in the vision stage
C15_Witness ==
    /\ pc = "rerun"
    /\ image_source(widgets).some
    /\ h.start.narrative = SomeSeq(<<"Error:", "w">>)
    /\ h.start.last_upload_id = FileId(image_source(widgets))

\* the narrative begins with an error marker, the one analyze_image returns
\* or the one run_vision_cached writes for an exception
BeginsWithMarker(narrative) ==
    StartsWith(narrative, "ERROR:") \/ StartsWith(narrative, "Error:")

\* C18: a non-empty narrative stored by the vision stage stops the pipeline
\* exactly when it begins with an error marker; every other non-empty
\* narrative takes the run on to retrieval.
C18_ErrorByPrefix ==
    [][(pc = "vision" /\ TruthySeq(session_state'.narrative)) =>
          (pc' = "retrieve" <=> ~BeginsWithMarker(session_state'.narrative.v))]_vars

\* C19: a vision stage that yields an empty narrative ends the run without a
\* failure recorded and without retrieval, and every later run that has an
\* image while narrative is still empty or absent evaluates the vision stage.
C19_EmptyNarrativeNotRun ==
    /\ [][(pc = "vision" /\ ~TruthySeq(session_state'.narrative)) =>
             /\ pc' = "idle"
             /\ ~h'.vfailed
             /\ session_state'.retrieved_items = NoneSeq]_vars
    /\ [][(/\ pc \in {"idle", "rerun"}
           /\ pc' # "rerun"
           /\ ~TruthySeq(session_state.narrative)
           /\ image_source(widgets').some) => pc' = "vision"]_vars

\* the vision stage is evaluated again for an identity whose narrative is empty
C19_Witness ==
    /\ pc = "vision"
    /\ ~h.changed
    /\ h.trigger = "persona"
    /\ session_state.narrative = SomeSeq(<<>>)
    /\ CacheHit(vision_cache, image_source(widgets))

\* C21: when the generator is about to be invoked with the selected persona,
\* every stored candidate was retrieved from that persona's namespace.
C21_NamespaceConsistency ==
    pc = "generate" =>
        \A j \in 1..Len(session_state.retrieved_items.v) :
            session_state.retrieved_items.v[j].ns = poet_map[widgets.selected_poet_name]

\* C22: retrieved_items is stored exactly when a retriever call and the
\* reranker call after it have completed since the identity last changed or
\* System Reset ran; from then on the run is never at the retriever or the
\* reranker again, also when the list stored is empty.
C22_RetrievalIdempotent ==
    session_state.retrieved_items.some => pc \notin {"retrieve", "rerank"}

\* C23: when a run caused by the Generate button is over, generated_poem is
\* a present, non-empty string.
C23_GenerationYieldsText ==
    [][(h.trigger = "generate" /\ pc' = "idle") =>
          TruthyStr(session_state'.generated_poem)]_vars

(***************************************************************************)
(* Harness for select_best_candidates                                      *)
(***************************************************************************)
InitRerank ==
    /\ \E c \in SeqsUpTo(CandPool, MaxCands), k \in 0..MaxTopK, r \in RerankResponses :
          rr = [phase |-> "in", candidates |-> c, top_k |-> k, resp |-> r, out |-> RRNoOut]
    /\ gp = GPIdle
    /\ OfflineOff
    /\ AppOff

RerankCall ==
    /\ rr.phase = "in"
    /\ rr' = [rr EXCEPT !.phase = "out",
                        !.out = select_best_candidates(<<"w">>, rr.candidates, rr.top_k, rr.resp)]
    /\ UNCHANGED <<gp, offline, appvars>>

NextRerank == RerankCall

SpecRerank == InitRerank /\ [][NextRerank]_vars

\* the first k elements of s, in their order
FirstK(s, k) == [j \in 1..Min(k, Len(s)) |-> s[j]]

\* an index the service may report for a list of n candidates
InRange(i, n) == i.t = "int" /\ i.v >= 0 /\ i.v < n

\* C3: the result of select_best_candidates is no longer than top_k and no
\* longer than the input, and every element it maps from the service's answer
\* comes from an index inside 0..len(candidates)-1.
C3_RerankBounds ==
    rr.phase = "out" =>
        /\ Len(rr.out.ret) <= rr.top_k
        /\ Len(rr.out.ret) <= Len(rr.candidates)
        /\ \A j \in 1..Len(rr.out.used) :
              rr.out.used[j] >= 0 /\ rr.out.used[j] < Len(rr.candidates)

\* the service raised, or nothing it answered is an index of the input
NoUsableIndex(resp, candidates) ==
    \/ resp.kind # "list"
    \/ \A j \in 1..Len(resp.best) : ~InRange(resp.best[j], Len(candidates))

\* the elements of a sequence
Range(s) == {s[j] : j \in 1..Len(s)}

\* C16: whatever the selection call does (raise, unparseable content, missing
\* or non-list best_indices, non-integer, negative, duplicate or out-of-range
\* indices), select_best_candidates raises nothing to its caller and returns
\* a list whose elements are candidates of the input.
C16_RerankNoEscape ==
    rr.phase = "out" =>
        /\ ~rr.out.escaped
        /\ Range(rr.out.ret) \subseteq Range(rr.candidates)

\* a non-integer index was answered for two candidates: the fallback ran
C16_Witness ==
    /\ rr.phase = "out"
    /\ Len(rr.candidates) = 2
    /\ rr.top_k = 2
    /\ rr.resp.kind = "list"
    /\ \E j \in 1..Len(rr.resp.best) : rr.resp.best[j] = StrIdx
    /\ rr.out.ret = rr.candidates

\* the answer is a non-empty list of distinct indices of the input
DistinctInRange(best, n) ==
    /\ best # <<>>
    /\ \A j \in 1..Len(best) : InRange(best[j], n)
    /\ \A j, m \in 1..Len(best) : j # m => best[j] # best[m]

\* C17: when the service answers a list of distinct in-range indices, the
\* result is the input candidates at the first top_k of those indices, in the
\* order of the answer, taken by position even when candidates share a text.
C17_IndexMapping ==
    (rr.phase = "out" /\ rr.resp.kind = "list"
        /\ DistinctInRange(rr.resp.best, Len(rr.candidates))) =>
        rr.out.ret = [j \in 1..Min(rr.top_k, Len(rr.resp.best)) |->
                         rr.candidates[rr.resp.best[j].v + 1]]

\* two candidates with the same text, answered in reverse order
C17_Witness ==
    /\ rr.phase = "out"
    /\ rr.candidates = <<Candidate(1, "dickinson", TRUE, "a"),
                         Candidate(2, "dickinson", TRUE, "a")>>
    /\ rr.top_k = 2
    /\ rr.resp = [kind |-> "list", best |-> <<IntIdx(1), IntIdx(0)>>]
    /\ rr.out.ret = <<Candidate(2, "dickinson", TRUE, "a"),
                      Candidate(1, "dickinson", TRUE, "a")>>

\* C20: select_best_candidates leaves the list it was given and every item of
\* it as they were (length, order, field values), whether it maps the answer
\* or falls back; what it returns are items of that list, unchanged.
C20_CandidatesNotMutated ==
    rr.phase = "out" =>
        /\ rr.out.candidates = rr.candidates
        /\ Range(rr.out.ret) \subseteq Range(rr.candidates)
        /\ \A j \in 1..Len(rr.out.ret) : rr.out.ret[j].rel = "absent"

\* a selection was mapped from the answer and the input is as it was
C20_Witness ==
    /\ rr.phase = "out"
    /\ Len(rr.candidates) = 2
    /\ rr.out.used = <<1>>
    /\ rr.out.ret = <<rr.candidates[2]>>
    /\ rr.out.candidates = rr.candidates

\* C4: for a non-empty candidate list, when the selection call raises or
\* yields no usable index the result is exactly the first top_k candidates in
\* input order, unchanged (no relevance score added).
C4_RerankFallback ==
    (rr.phase = "out" /\ rr.candidates # <<>> /\ NoUsableIndex(rr.resp, rr.candidates)) =>
        rr.out.ret = FirstK(rr.candidates, rr.top_k)

\* C5: for an empty candidate list the result is empty and the external
\* selection service is not invoked.
C5_EmptyCandidates ==
    (rr.phase = "out" /\ rr.candidates = <<>>) =>
        (rr.out.ret = <<>> /\ ~rr.out.invoked)

(***************************************************************************)
(* Harness for generate_poem                                               *)
(***************************************************************************)
GenNarratives == {<<"w">>, <<"w", "w">>}

\* the three personas, a name outside the table and the empty name
GenPoetNames == DOMAIN POET_PROMPTS \cup {"Sappho", ""}

InitGen ==
    /\ \E n \in GenNarratives, c \in SeqsUpTo(CandPool, MaxRefs), p \in GenPoetNames,
          t \in TempVals, r \in GenResponses :
          gp = [phase |-> "in", narrative |-> n, refs |-> c, poet |-> p,
                temperature |-> t, resp |-> r, out |-> GPNoOut]
    /\ rr = RRIdle
    /\ OfflineOff
    /\ AppOff

GenerateCall ==
    /\ gp.phase = "in"
    /\ gp' = [gp EXCEPT !.phase = "out",
                        !.out = generate_poem(gp.narrative, gp.refs, gp.poet,
                                              gp.temperature, gp.resp)]
    /\ UNCHANGED <<rr, offline, appvars>>

NextGen == GenerateCall

SpecGen == InitGen /\ [][NextGen]_vars

\* the external generation call was made and raised
GenerationCallRaised == gp.phase = "out" /\ gp.out.invoked /\ gp.resp.kind = "raise"

\* C6: whenever the external generation call raises, generate_poem returns the
\* one fixed, non-empty placeholder poem, whatever the narrative, references,
\* persona and temperature, and no exception reaches the caller.
C6_GenerationPlaceholder ==
    GenerationCallRaised =>
        /\ ~gp.out.escaped
        /\ gp.out.ret = SomeStr(PLACEHOLDER_POEM)
        /\ gp.out.ret.v # ""

C6_Witness ==
    /\ GenerationCallRaised
    /\ gp.refs # <<>>
    /\ gp.poet = "Walt Whitman"
    /\ gp.out.ret.some

\* C7: for a persona name that is not a key of the persona table the
\* instructions are built from the Emily Dickinson template and the call
\* proceeds exactly as for a known persona: it is made whenever the reference
\* loop completes, and nothing is raised because of the name.
C7_UnknownPersona ==
    (gp.phase = "out" /\ gp.poet \notin DOMAIN POET_PROMPTS) =>
        /\ gp.out.invoked = ~ReferenceLoopRaises(gp.refs)
        /\ gp.out.escaped = ReferenceLoopRaises(gp.refs)
        /\ gp.out.invoked => gp.out.request.system = POET_PROMPTS["Emily Dickinson"]

C7_Witness ==
    /\ gp.phase = "out"
    /\ gp.poet = "Sappho"
    /\ gp.out.invoked
    /\ gp.out.request.system = "You are the ghost of Emily Dickinson."
    /\ gp.out.ret = SomeStr("poem1")


(***************************************************************************)
(* app.py, run_vision_cached called by two sessions of one server process  *)
(*                                                                         *)
(* Streamlit runs the script of every session in a thread of the same      *)
(* process: the sessions share the working directory, hence the file       *)
(* temp_input.jpg, and the store of st.cache_data.  A call is taken apart  *)
(* at the points where the other thread can run: the cache lookup, the     *)
(* open(..., "wb") of line 37 (which truncates the file), the write of     *)
(* line 38 and the analyze_image of line 39, which reads the file.         *)
(* Every narrative and every cache entry carries, in the field of, the     *)
(* bytes that analyze_image read to produce it.                            *)
(***************************************************************************)
SessionIds == {"s1", "s2"}
SessionFiles == UploadFiles \cup CameraFiles
NoAnalysis == [val |-> NoneSeq, of |-> ""]
NoTempFile == [exists |-> FALSE, bytes |-> ""]

\* st.cache_data computes one value per key at a time
Computing(ss, s) == ss.at[s] \in {"open", "write", "analyze"}
KeyLocked(ss, s) ==
    \E t \in SessionIds \ {s} :
        Computing(ss, t) /\ CacheKey(ss.image[t]) = CacheKey(ss.image[s])

CacheEntry(cache, f) == CHOOSE e \in cache : e.key = CacheKey(f)
CacheStore(cache, f, val, of) ==
    {e \in cache : e.key # CacheKey(f)}
        \cup {[key |-> CacheKey(f), val |-> val, of |-> of]}

InitSessions ==
    /\ sessions \in { [phase |-> "on",
                       image |-> img,
                       at |-> [s \in SessionIds |-> "call"],
                       narrative |-> [s \in SessionIds |-> NoAnalysis],
                       temp_input |-> NoTempFile,
                       cache |-> {}] : img \in [SessionIds -> SessionFiles] }
    /\ tagger = TaggerIdle
    /\ loader = LoaderIdle
    /\ rr = RRIdle
    /\ gp = GPIdle
    /\ AppOff

\* run_vision_cached(image_source): the entry of the image is in the cache
CallCachedHit(s) ==
    /\ sessions.at[s] = "call"
    /\ \E e \in sessions.cache : e.key = CacheKey(sessions.image[s])
    /\ LET e == CacheEntry(sessions.cache, sessions.image[s])
       IN  sessions' = [sessions EXCEPT !.narrative[s] = [val |-> e.val, of |-> e.of],
                                        !.at[s] = "done"]
    /\ UNCHANGED <<tagger, loader, rr, gp, appvars>>

\* run_vision_cached(image_source): no entry, the body starts to run
CallCachedMiss(s) ==
    /\ sessions.at[s] = "call"
    /\ ~ \E e \in sessions.cache : e.key = CacheKey(sessions.image[s])
    /\ ~ KeyLocked(sessions, s)
    /\ sessions' = [sessions EXCEPT !.at[s] = "open"]
    /\ UNCHANGED <<tagger, loader, rr, gp, appvars>>

\* line 37: open("temp_input.jpg", "wb")
OpenTemp(s) ==
    /\ sessions.at[s] = "open"
    /\ sessions' = [sessions EXCEPT !.temp_input = [exists |-> TRUE, bytes |-> ""],
                                    !.at[s] = "write"]
    /\ UNCHANGED <<tagger, loader, rr, gp, appvars>>

\* line 38: f.write(image_file.getbuffer()), and the file is closed
WriteTemp(s) ==
    /\ sessions.at[s] = "write"
    /\ sessions' = [sessions EXCEPT
                       !.temp_input = [exists |-> TRUE,
                                       bytes |-> sessions.image[s].content],
                       !.at[s] = "analyze"]
    /\ UNCHANGED <<tagger, loader, rr, gp, appvars>>

\* line 39 (or 40-41 when it raises): analyze_image("temp_input.jpg") reads
\* what the file holds now; the result is cached for the argument and stored
\* by the caller (line 157)
AnalyzeTemp(s) ==
    /\ sessions.at[s] = "analyze"
    /\ LET read == sessions.temp_input.bytes
       IN  \E o \in VisionOutcomes(read) :
             LET result == VisionBody(o)
             IN  sessions' = [sessions EXCEPT
                     !.cache = CacheStore(@, sessions.image[s], result, read),
                     !.narrative[s] = [val |-> result, of |-> read],
                     !.at[s] = "done"]
    /\ UNCHANGED <<tagger, loader, rr, gp, appvars>>

NextSessions ==
    \/ \E s \in SessionIds : CallCachedHit(s)
    \/ \E s \in SessionIds : CallCachedMiss(s)
    \/ \E s \in SessionIds : OpenTemp(s)
    \/ \E s \in SessionIds : WriteTemp(s)
    \/ \E s \in SessionIds : AnalyzeTemp(s)

SpecSessions == InitSessions /\ [][NextSessions]_vars

\* C24: when the two sessions hold images of different bytes, the narrative a
\* session has stored and every entry of the cache were produced by analysing
\* the bytes of the image they belong to.
C24_SessionIsolation ==
    sessions.image["s1"].content # sessions.image["s2"].content =>
        /\ \A s \in SessionIds :
              sessions.at[s] = "done" =>
                  sessions.narrative[s].of = sessions.image[s].content
        /\ \A e \in sessions.cache : e.of = e.key.content


(***************************************************************************)
(* scripts/metadata_extractor_dense.py: runs of main over one input file   *)
(*                                                                         *)
(* A poem is a record of the two measures the filter of line 91 reads:     *)
(* len(poem) and the average line length.  The output file is absent, or   *)
(* holds text: blank, text that is not JSON, or the text json.dump wrote   *)
(* for a list.  A run is every step of main from line 76 on; it ends when  *)
(* the loop is over, at the break of line 113, or when the process is      *)
(* stopped between two poems.                                              *)
(***************************************************************************)
MaxPoems == 3
MaxRuns == 3

Poem(name, length, avg) == [name |-> name, len |-> length, avg_line_len |-> avg]
PoemKinds == { Poem("tiny", 5, 5), Poem("verse", 120, 30), Poem("prose", 400, 100) }

\* f.read().split("\n---POEM_SEPARATOR---\n") has at least one element
PoemLists == UNION { [1..n -> PoemKinds] : n \in 1..MaxPoems }

\* f"poem_{i:04d}": the decimal digits of i, padded with zeros to four
RECURSIVE Digits(_)
Digits(n) == IF n < 10 THEN <<n>> ELSE Append(Digits(n \div 10), n % 10)
RECURSIVE ZeroPad(_, _)
ZeroPad(ds, width) == IF Len(ds) >= width THEN ds ELSE ZeroPad(<<0>> \o ds, width)
PoemId(i) == <<"poem_">> \o ZeroPad(Digits(i), 4)

\* what get_dense_tags returns: the parsed object (size is the number of its
\* keys), or None after any exception
SomeTags(size) == [some |-> TRUE, size |-> size]
NoTags == [some |-> FALSE, size |-> 0]
TagOutcomes == { SomeTags(4), SomeTags(0), NoTags }
TruthyTags(tags) == tags.some /\ tags.size > 0

SkippedEntry(i) == [id |-> PoemId(i), status |-> "skipped", text |-> "", metadata |-> NoTags]
TaggedEntry(i, poem, tags) == [id |-> PoemId(i), status |-> "", text |-> poem.name,
                               metadata |-> tags]

\* the output file and what is in it
NoOutput == [exists |-> FALSE, kind |-> "", data |-> <<>>]
TextOutput(kind) == [exists |-> TRUE, kind |-> kind, data |-> <<>>]
json_dump(processed_data) == [exists |-> TRUE, kind |-> "json", data |-> processed_data]

\* load_existing_data, lines 52-59
load_existing_data(output_file) ==
    IF ~output_file.exists THEN <<>>
    ELSE IF output_file.kind = "blank" THEN <<>>
    ELSE IF output_file.kind = "json" THEN output_file.data
    ELSE <<>>

\* line 77
start_index_tagged_only(processed_data) ==
    Cardinality({k \in 1..Len(processed_data) : processed_data[k].status # "skipped"})
start_index(processed_data) == Len(processed_data)

\* lines 89-91
max_len(loose) == IF loose THEN 200 ELSE 65
Filtered(poem, loose) == poem.len < 10 \/ poem.avg_line_len > max_len(loose)

NoFailure == 0 - 1

InitTagger ==
    /\ tagger \in { [phase |-> "on",
                     all_poems |-> ps,
                     output_file |-> f,
                     pc |-> "idle",
                     loose |-> FALSE,
                     processed_data |-> <<>>,
                     start |-> 0,
                     i |-> 0,
                     runs |-> 0,
                     failed |-> NoFailure] :
                    ps \in PoemLists,
                    f \in {NoOutput, TextOutput("blank"), TextOutput("garbage")} }
    /\ sessions = SessionsIdle
    /\ loader = LoaderIdle
    /\ rr = RRIdle
    /\ gp = GPIdle
    /\ AppOff

\* lines 76-79: a run starts
MainStart(loose) ==
    /\ tagger.pc = "idle"
    /\ tagger.runs < MaxRuns
    /\ LET processed_data == load_existing_data(tagger.output_file)
       IN  tagger' = [tagger EXCEPT !.pc = "loop",
                                    !.loose = loose,
                                    !.processed_data = processed_data,
                                    !.start = start_index(processed_data),
                                    !.i = start_index(processed_data),
                                    !.runs = @ + 1]
    /\ UNCHANGED <<sessions, loader, rr, gp, appvars>>

\* line 81: range(start_index, len(all_poems)) is exhausted
LoopEnd ==
    /\ tagger.pc = "loop"
    /\ tagger.i >= Len(tagger.all_poems)
    /\ tagger' = [tagger EXCEPT !.pc = "idle", !.failed = NoFailure]
    /\ UNCHANGED <<sessions, loader, rr, gp, appvars>>

\* lines 82-97: the poem is filtered out and a placeholder is saved
SkipPoem ==
    /\ tagger.pc = "loop"
    /\ tagger.i < Len(tagger.all_poems)
    /\ Filtered(tagger.all_poems[tagger.i + 1], tagger.loose)
    /\ LET processed_data == Append(tagger.processed_data, SkippedEntry(tagger.i))
       IN  tagger' = [tagger EXCEPT !.processed_data = processed_data,
                                    !.output_file = json_dump(processed_data),
                                    !.i = @ + 1]
    /\ UNCHANGED <<sessions, loader, rr, gp, appvars>>

\* lines 99-113: the poem is tagged and saved, or the run stops
TagPoem(tags) ==
    /\ tagger.pc = "loop"
    /\ tagger.i < Len(tagger.all_poems)
    /\ ~ Filtered(tagger.all_poems[tagger.i + 1], tagger.loose)
    /\ IF TruthyTags(tags)
       THEN LET processed_data ==
                    Append(tagger.processed_data,
                           TaggedEntry(tagger.i, tagger.all_poems[tagger.i + 1], tags))
            IN  tagger' = [tagger EXCEPT !.processed_data = processed_data,
                                         !.output_file = json_dump(processed_data),
                                         !.i = @ + 1]
       ELSE tagger' = [tagger EXCEPT !.pc = "idle", !.failed = tagger.i]
    /\ UNCHANGED <<sessions, loader, rr, gp, appvars>>

\* the process is stopped between two poems
StopBetweenPoems ==
    /\ tagger.pc = "loop"
    /\ tagger' = [tagger EXCEPT !.pc = "idle", !.failed = NoFailure]
    /\ UNCHANGED <<sessions, loader, rr, gp, appvars>>

NextTagger ==
    \/ \E loose \in BOOLEAN : MainStart(loose)
    \/ LoopEnd
    \/ SkipPoem
    \/ \E tags \in TagOutcomes : TagPoem(tags)
    \/ StopBetweenPoems

SpecTagger == InitTagger /\ [][NextTagger]_vars

\* C25: whatever runs have happened, the list in the output file is a prefix
\* of the poem list: entry i has the id poem_i and, when tagged, the text of
\* poem i; no id occurs twice; and the poem whose tagging ended the last run
\* is not in the list, so that the next run starts at it.
C25_IndexAlignment ==
    LET data == load_existing_data(tagger.output_file)
    IN  /\ Len(data) <= Len(tagger.all_poems)
        /\ \A k \in 1..Len(data) :
              /\ data[k].id = PoemId(k - 1)
              /\ data[k].status # "skipped" => data[k].text = tagger.all_poems[k].name
        /\ \A j, k \in 1..Len(data) : j # k => data[j].id # data[k].id
        /\ tagger.failed # NoFailure =>
              /\ Len(data) >= tagger.failed
              /\ tagger.pc = "idle" => Len(data) = tagger.failed
              /\ tagger.pc = "loop" => tagger.start = tagger.failed

\* a run stopped at a poem whose tagging failed, and the next run has started
\* at that poem and recorded it, after a placeholder and a tagged poem
C25_Witness ==
    /\ tagger.failed = 2
    /\ tagger.pc = "loop"
    /\ tagger.start = 2
    /\ tagger.runs >= 2
    /\ Len(load_existing_data(tagger.output_file)) = 3
    /\ \E k \in 1..2 : load_existing_data(tagger.output_file)[k].status = "skipped"


(***************************************************************************)
(* scripts/vector_loader.py: one call of load_data                         *)
(*                                                                         *)
(* A poem of the JSON file is a record with its id and status.  The two    *)
(* services, the embedding and index.upsert, answer or raise as they       *)
(* like, up to MaxEmbedFailures and MaxUpsertFailures failures in a call.  *)
(* embedded is the set of ids whose embedding succeeded, upserted the set  *)
(* of (namespace, id) pairs some successful upsert carried.                *)
(***************************************************************************)
batch_size == 50
MaxExtra == 2
MaxSkipped == 1
MaxEmbedFailures == 1
MaxUpsertFailures == 1

Namespaces == {"dickinson", "whitman"}

\* the file holds no poem, fewer than a batch, or more than a batch; the
\* first few may be placeholders of the tagging script
PoemCounts == {0, MaxExtra, batch_size + MaxExtra}
PoemFile(n, skipped) ==
    [k \in 1..n |-> [id |-> k, status |-> IF k <= skipped THEN "skipped" ELSE ""]]
PoemFiles == { PoemFile(n, sk) : n \in PoemCounts, sk \in 0..MaxSkipped }

\* line 54
valid_poems(poems) == SelectSeq(poems, LAMBDA p : p.status # "skipped")

\* lines 78-87
vector_payload(poem, namespace) == [id |-> poem.id, author |-> namespace]

\* line 91
BatchFull(vectors_to_upsert) == Len(vectors_to_upsert) >= batch_size

\* lines 97-98: what the handler leaves in vectors_to_upsert
AfterFailedUpsert_reset(vectors_to_upsert) == <<>>
AfterFailedUpsert(vectors_to_upsert) == vectors_to_upsert

\* index.upsert(vectors=..., namespace=namespace) went through
Upserted(done, vectors_to_upsert, namespace) ==
    done \cup { [ns |-> namespace, id |-> vectors_to_upsert[k].id] :
                  k \in 1..Len(vectors_to_upsert) }

InitLoader ==
    /\ loader \in { [phase |-> "on",
                     poems |-> ps,
                     namespace |-> ns,
                     pc |-> "start",
                     valid_poems |-> <<>>,
                     i |-> 0,
                     vectors_to_upsert |-> <<>>,
                     embedded |-> {},
                     upserted |-> {},
                     embed_failures |-> 0,
                     upsert_failures |-> 0] :
                    ps \in PoemFiles, ns \in Namespaces }
    /\ sessions = SessionsIdle
    /\ tagger = TaggerIdle
    /\ rr = RRIdle
    /\ gp = GPIdle
    /\ AppOff

\* lines 50-58
FilterPoems ==
    /\ loader.pc = "start"
    /\ loader' = [loader EXCEPT !.valid_poems = valid_poems(loader.poems),
                                !.pc = "loop"]
    /\ UNCHANGED <<sessions, tagger, rr, gp, appvars>>

\* lines 62-75: the embedding of the next poem raises
EmbedFails ==
    /\ loader.pc = "loop"
    /\ loader.i < Len(loader.valid_poems)
    /\ loader.embed_failures < MaxEmbedFailures
    /\ loader' = [loader EXCEPT !.i = @ + 1, !.embed_failures = @ + 1]
    /\ UNCHANGED <<sessions, tagger, rr, gp, appvars>>

\* lines 62-91: the next poem is embedded and joins the batch
EmbedPoem ==
    /\ loader.pc = "loop"
    /\ loader.i < Len(loader.valid_poems)
    /\ LET poem == loader.valid_poems[loader.i + 1]
           vectors == Append(loader.vectors_to_upsert,
                             vector_payload(poem, loader.namespace))
       IN  loader' = [loader EXCEPT
                         !.vectors_to_upsert = vectors,
                         !.embedded = @ \cup {poem.id},
                         !.pc = IF BatchFull(vectors) THEN "batch" ELSE "loop",
                         !.i = IF BatchFull(vectors) THEN @ ELSE @ + 1]
    /\ UNCHANGED <<sessions, tagger, rr, gp, appvars>>

\* lines 92-98: the upsert of a full batch
UpsertBatch(ok) ==
    /\ loader.pc = "batch"
    /\ ~ok => loader.upsert_failures < MaxUpsertFailures
    /\ loader' = [loader EXCEPT
                     !.upserted = IF ok THEN Upserted(@, loader.vectors_to_upsert,
                                                      loader.namespace)
                                  ELSE @,
                     !.vectors_to_upsert = IF ok THEN <<>> ELSE AfterFailedUpsert(@),
                     !.upsert_failures = IF ok THEN @ ELSE @ + 1,
                     !.pc = "loop",
                     !.i = @ + 1]
    /\ UNCHANGED <<sessions, tagger, rr, gp, appvars>>

\* lines 101-105: the final upsert, whose exception leaves load_data
FinalBatch(ok) ==
    /\ loader.pc = "loop"
    /\ loader.i >= Len(loader.valid_poems)
    /\ loader.vectors_to_upsert # <<>>
    /\ loader' = [loader EXCEPT
                     !.upserted = IF ok THEN Upserted(@, loader.vectors_to_upsert,
                                                      loader.namespace)
                                  ELSE @,
                     !.upsert_failures = IF ok THEN @ ELSE @ + 1,
                     !.pc = IF ok THEN "returned" ELSE "raised"]
    /\ UNCHANGED <<sessions, tagger, rr, gp, appvars>>

\* lines 101, 105: nothing is left to upload
ReturnEmpty ==
    /\ loader.pc = "loop"
    /\ loader.i >= Len(loader.valid_poems)
    /\ loader.vectors_to_upsert = <<>>
    /\ loader' = [loader EXCEPT !.pc = "returned"]
    /\ UNCHANGED <<sessions, tagger, rr, gp, appvars>>

NextLoader ==
    \/ FilterPoems
    \/ EmbedFails
    \/ EmbedPoem
    \/ \E ok \in BOOLEAN : UpsertBatch(ok)
    \/ \E ok \in BOOLEAN : FinalBatch(ok)
    \/ ReturnEmpty

SpecLoader == InitLoader /\ [][NextLoader]_vars

SkippedIds == {loader.poems[k].id : k \in {j \in 1..Len(loader.poems) :
                                              loader.poems[j].status = "skipped"}}

\* C26: when load_data has returned, every poem whose embedding succeeded was
\* carried by a successful upsert to the target namespace; and at any time
\* only embedded, non-skipped poems have been upserted, to that namespace.
C26_UploadComplete ==
    /\ loader.pc = "returned" =>
          \A id \in loader.embedded : [ns |-> loader.namespace, id |-> id] \in loader.upserted
    /\ \A u \in loader.upserted :
          /\ u.ns = loader.namespace
          /\ u.id \in loader.embedded
          /\ u.id \notin SkippedIds

\* load_data returned after a batch upsert failed, an embedding failed and a
\* placeholder was filtered out, and poems were uploaded
C26_Witness ==
    /\ loader.pc = "returned"
    /\ loader.upsert_failures >= 1
    /\ loader.embed_failures >= 1
    /\ SkippedIds # {}
    /\ Cardinality(loader.upserted) >= batch_size

============================================================================
